---- MODULE Spec2Model ----
(***************************************************************************)
(* Model of the Just Tools backend (src/backend/main.py): a FastAPI        *)
(* application with three GET routes and one static mount.                 *)
(*                                                                         *)
(*   get_client_ip, filter_headers, get_ip_location  helper functions      *)
(*   get_system_info   GET /api/system-info (suspends on the geo call)     *)
(*   health_check      GET /api/health                                     *)
(*   StaticFiles       mount at /assets                                    *)
(*   catch_all         GET /{full_path:path}                               *)
(*                                                                         *)
(* Python str values are TLA+ strings; TLC evaluates Len, Head, Tail,      *)
(* SubSeq and \o on them character by character.  A Python dict is a       *)
(* function whose DOMAIN is its key set.  An optional value (None or v)    *)
(* is the sequence <<>> or <<v>>.                                          *)
(***************************************************************************)
EXTENDS Integers, Sequences, FiniteSets, TLC

VARIABLES
    fs,         \* regular files that exist, by canonical path
    pc,         \* per connection slot: "idle", "dispatched", "awaiting_geo", "done"
    req,        \* per slot: the request being served
    client_ip,  \* per slot: local variable client_ip of get_system_info
    reply,      \* per slot: outcome of this request's own outbound geo call
    resp,       \* per slot: the response sent
    handler,    \* per slot: the endpoint the router dispatched the request to
    geo_calls,  \* per slot: outbound geolocation calls issued for the request
    fn_in,      \* argument of the helper function under check
    fn_out,     \* its return value
    fn_done     \* whether it has been applied

serverVars == <<fs, pc, req, client_ip, reply, resp, handler, geo_calls>>
fnVars == <<fn_in, fn_out, fn_done>>
vars == <<fs, pc, req, client_ip, reply, resp, handler, geo_calls,
          fn_in, fn_out, fn_done>>

-----------------------------------------------------------------------------
(* Bounds of the model.                                                    *)

\* longest enumerated X-Forwarded-For value (longer samples are added by name)
MaxLen == 3
\* most entries of an enumerated header mapping
MaxHeaders == 2
\* connection slots, i.e. requests that can be in flight at once
MaxReq == 2

-----------------------------------------------------------------------------
(* Python str methods.                                                     *)

None == <<>>
Some(v) == <<v>>

UpperAlphabet == "ABCDEFGHIJKLMNOPQRSTUVWXYZ"
LowerAlphabet == "abcdefghijklmnopqrstuvwxyz"

\* upper-case letter -> its lower-case letter
LowerMap ==
    [c \in {SubSeq(UpperAlphabet, i, i) : i \in 1..Len(UpperAlphabet)} |->
        LET i == CHOOSE j \in 1..Len(UpperAlphabet) : SubSeq(UpperAlphabet, j, j) = c
        IN  SubSeq(LowerAlphabet, i, i)]

\* str.lower() on one character (ASCII range)
LowerChar(c) == IF c \in DOMAIN LowerMap THEN LowerMap[c] ELSE c

RECURSIVE lower(_)
lower(s) == IF s = "" THEN "" ELSE LowerChar(Head(s)) \o lower(Tail(s))

\* characters str.strip() removes (those an HTTP header value or a JSON
\* string of this service can carry at its ends)
Whitespace == {" ", "\t"}

RECURSIVE lstrip(_)
lstrip(s) == IF s # "" /\ Head(s) \in Whitespace THEN lstrip(Tail(s)) ELSE s

RECURSIVE rstrip(_)
rstrip(s) ==
    IF s # "" /\ SubSeq(s, Len(s), Len(s)) \in Whitespace
    THEN rstrip(SubSeq(s, 1, Len(s) - 1))
    ELSE s

strip(s) == rstrip(lstrip(s))

Min(S) == CHOOSE x \in S : \A y \in S : x <= y

\* str.find(sep) from position i on, for a one-character sep: the first
\* position (counted from 1) that holds sep, 0 when there is none
RECURSIVE find(_, _, _)
find(s, sep, i) ==
    IF i > Len(s) THEN 0
    ELSE IF SubSeq(s, i, i) = sep THEN i
    ELSE find(s, sep, i + 1)

\* str.split(sep) for a one-character separator: the list of segments
RECURSIVE split(_, _)
split(s, sep) ==
    LET i == find(s, sep, 1)
    IN  IF i = 0 THEN <<s>>
        ELSE <<SubSeq(s, 1, i - 1)>> \o split(SubSeq(s, i + 1, Len(s)), sep)

\* str.startswith
startswith(s, p) == Len(s) >= Len(p) /\ SubSeq(s, 1, Len(p)) = p

\* all strings over the characters of Alphabet (a set of one-character
\* strings) of length at most n
RECURSIVE StringsUpTo(_, _)
StringsUpTo(Alphabet, n) ==
    IF n = 0 THEN {""}
    ELSE LET shorter == StringsUpTo(Alphabet, n - 1)
         IN  shorter \cup {s \o c : s \in shorter, c \in Alphabet}

\* dict.get(key) and dict.get(key, default)
Get(d, k) == IF k \in DOMAIN d THEN Some(d[k]) ELSE None
GetOr(d, k, default) == IF k \in DOMAIN d THEN d[k] ELSE default

\* truth value of an optional str: None and "" are falsy
Truthy(o) == o # None /\ o[1] # ""

-----------------------------------------------------------------------------
(* The helper functions.                                                   *)

EXCLUDED_HEADERS == {"cookie", "authorization", "x-api-key", "x-auth-token"}

\* A request: headers is request.headers (name -> value; the ASGI server
\* delivers header names in lower case), client is request.client's host or
\* None when the server has no peer address.
get_client_ip_NoStrip(request) ==
    LET forwarded_for == Get(request.headers, "x-forwarded-for")
        real_ip == Get(request.headers, "x-real-ip")
    IN  IF Truthy(forwarded_for) THEN split(forwarded_for[1], ",")[1]
        ELSE IF Truthy(real_ip) THEN real_ip[1]
        ELSE IF request.client # None THEN request.client[1]
        ELSE "unknown"

get_client_ip_PeerFirst(request) ==
    LET forwarded_for == Get(request.headers, "x-forwarded-for")
        real_ip == Get(request.headers, "x-real-ip")
    IN  IF request.client # None THEN request.client[1]
        ELSE IF Truthy(real_ip) THEN real_ip[1]
        ELSE IF Truthy(forwarded_for) THEN strip(split(forwarded_for[1], ",")[1])
        ELSE "unknown"

get_client_ip(request) ==
    LET forwarded_for == Get(request.headers, "x-forwarded-for")
        real_ip == Get(request.headers, "x-real-ip")
    IN  IF Truthy(forwarded_for) THEN strip(split(forwarded_for[1], ",")[1])
        ELSE IF Truthy(real_ip) THEN real_ip[1]
        ELSE IF request.client # None THEN request.client[1]
        ELSE "unknown"

filter_headers_CaseSensitive(headers) ==
    LET kept == {key \in DOMAIN headers : key \notin EXCLUDED_HEADERS}
    IN  [key \in kept |-> headers[key]]

filter_headers(headers) ==
    LET kept == {key \in DOMAIN headers : lower(key) \notin EXCLUDED_HEADERS}
    IN  [key \in kept |-> headers[key]]

\* The literal the source writes as the two CJK characters U+672A U+77E5
\* ("unknown"); module text is ASCII, so the string is spelt by code point.
UNKNOWN == "U+672A U+77E5"

HTTP_OK == 200

\* Exceptions the body of the try block can raise, and those among them that
\* are httpx errors.  All are subclasses of Exception.
HttpxErrors == {"ConnectError", "TimeoutException"}
ExceptionClasses == HttpxErrors \cup {"JSONDecodeError", "AttributeError"}

\* `except Exception` catches exc
CaughtByExcept_HttpxOnly(exc) == exc \in HttpxErrors

CaughtByExcept(exc) == exc \in ExceptionClasses

\* The outcome of the one call client.get(...):
\*   exc          None, or the exception the call raised (network error, timeout)
\*   status_code  response.status_code
\*   parse        what response.json() does: "object" (a JSON object, in data),
\*                "array" (valid JSON that is no object), "invalid" (raises)
\*   data         the parsed JSON object, field -> string
Returned(v) == [kind |-> "return", value |-> v, exc |-> ""]
Raised(e) == [kind |-> "raise", value |-> <<>>, exc |-> e]
FellThrough == [kind |-> "fallthrough", value |-> <<>>, exc |-> ""]

\* the f-string of the "location" entry
LocationOf_NoStrip(data) ==
    GetOr(data, "country", "") \o " " \o GetOr(data, "regionName", "")
        \o " " \o GetOr(data, "city", "")

LocationOf(data) ==
    strip(GetOr(data, "country", "") \o " " \o GetOr(data, "regionName", "")
              \o " " \o GetOr(data, "city", ""))

\* the body of the try block
TryBody(outcome) ==
    IF outcome.exc # None THEN Raised(outcome.exc[1])
    ELSE IF outcome.status_code = HTTP_OK
    THEN IF outcome.parse = "invalid" THEN Raised("JSONDecodeError")
         ELSE IF outcome.parse # "object" THEN Raised("AttributeError")
         ELSE IF Get(outcome.data, "status") = Some("success")
         THEN Returned([location |-> LocationOf(outcome.data),
                        isp |-> GetOr(outcome.data, "isp", UNKNOWN)])
         ELSE FellThrough
    ELSE FellThrough

\* get_ip_location, given the outcome of its outbound call: raised is None
\* when it returns value, and the exception when one propagates to the caller
get_ip_location(outcome) ==
    LET t == TryBody(outcome)
    IN  IF t.kind = "return" THEN [raised |-> None, value |-> t.value]
        ELSE IF t.kind = "raise" /\ ~CaughtByExcept(t.exc)
        THEN [raised |-> Some(t.exc), value |-> <<>>]
        ELSE [raised |-> None,
              value |-> [location |-> UNKNOWN, isp |-> UNKNOWN]]

-----------------------------------------------------------------------------
(* Inputs of the helper functions.                                         *)

\* dict literals
Dict1(k, v) == [x \in {k} |-> v]
Merge(d, e) == [x \in DOMAIN d \cup DOMAIN e |-> IF x \in DOMAIN d THEN d[x] ELSE e[x]]
EmptyDict == <<>>

\* header names as a client can spell them
HeaderNames ==
    {"cookie", "Cookie", "COOKIE", "cookies", "Authorization", "authorization",
     "X-Api-Key", "x-api-key", "X-AUTH-TOKEN", "x-auth-token", "x-auth",
     "Accept", "host", "User-Agent"}
HeaderValues == {"a=1", "Bearer  T "}

\* all dicts with at most MaxHeaders of the names above
HeaderDicts ==
    UNION {[K -> HeaderValues] :
              K \in {S \in SUBSET HeaderNames : Cardinality(S) <= MaxHeaders}}

XffSample == "1.2.3.4, 5.6.7.8"
XffValues == StringsUpTo({"1", ",", " "}, MaxLen) \cup {XffSample, " 1.2.3.4 ,5.6.7.8", "\t1\t"}
RealIpValues == {"", "9.9.9.9", " 9.9.9.9 ", "9.9.9.9, 8.8.8.8"}
ClientHosts == {"7.7.7.7"}

Optional(S) == {None} \cup {Some(v) : v \in S}

\* the request with the given optional X-Forwarded-For, X-Real-IP and peer address
RequestWith(xff, xri, client) ==
    [headers |-> Merge(Merge(IF xff = None THEN EmptyDict ELSE Dict1("x-forwarded-for", xff[1]),
                             IF xri = None THEN EmptyDict ELSE Dict1("x-real-ip", xri[1])),
                       Dict1("host", "example.org")),
     client |-> client]

IpRequests ==
    {RequestWith(xff, xri, client) :
        xff \in Optional(XffValues), xri \in Optional(RealIpValues),
        client \in Optional(ClientHosts)}

\* JSON objects the provider can send
OptionalField(k, S) == {EmptyDict} \cup {Dict1(k, v) : v \in S}
GeoData ==
    {Merge(st, Merge(co, Merge(rg, Merge(ci, isp)))) :
        st \in OptionalField("status", {"success", "fail"}),
        co \in OptionalField("country", {"Japan", " Japan"}),
        rg \in OptionalField("regionName", {"Tokyo", ""}),
        ci \in OptionalField("city", {"Shibuya", "Shibuya "}),
        isp \in OptionalField("isp", {"ExampleISP", ""})}

Response(code, parse, data) ==
    [exc |-> None, status_code |-> code, parse |-> parse, data |-> data]
NetworkFailure(e) ==
    [exc |-> Some(e), status_code |-> 0, parse |-> "invalid", data |-> EmptyDict]

StatusCodes == {HTTP_OK, 204, 404, 429, 500}

GeoOutcomes ==
    {Response(code, "object", d) : code \in StatusCodes, d \in GeoData}
        \cup {Response(code, p, EmptyDict) : code \in StatusCodes, p \in {"invalid", "array"}}
        \cup {NetworkFailure(e) : e \in HttpxErrors}

-----------------------------------------------------------------------------
(* Specifications of the helper functions: Init draws the argument, the    *)
(* one action applies the function.                                        *)

ServerIdle ==
    /\ fs = {}
    /\ pc = [r \in 1..MaxReq |-> "idle"]
    /\ req = [r \in 1..MaxReq |-> <<>>]
    /\ client_ip = [r \in 1..MaxReq |-> ""]
    /\ reply = [r \in 1..MaxReq |-> <<>>]
    /\ resp = [r \in 1..MaxReq |-> <<>>]
    /\ handler = [r \in 1..MaxReq |-> ""]
    /\ geo_calls = [r \in 1..MaxReq |-> 0]

InitFn(Inputs) ==
    /\ ServerIdle
    /\ fn_in \in Inputs
    /\ fn_out = <<>>
    /\ fn_done = FALSE

CallFilterHeaders ==
    /\ ~fn_done
    /\ fn_out' = filter_headers(fn_in)
    /\ fn_done' = TRUE
    /\ UNCHANGED <<fn_in, serverVars>>

CallGetClientIp ==
    /\ ~fn_done
    /\ fn_out' = get_client_ip(fn_in)
    /\ fn_done' = TRUE
    /\ UNCHANGED <<fn_in, serverVars>>

CallGetIpLocation ==
    /\ ~fn_done
    /\ fn_out' = get_ip_location(fn_in)
    /\ fn_done' = TRUE
    /\ UNCHANGED <<fn_in, serverVars>>

SpecFilterHeaders == InitFn(HeaderDicts) /\ [][CallFilterHeaders]_vars
SpecGetClientIp == InitFn(IpRequests) /\ [][CallGetClientIp]_vars
SpecGetIpLocation == InitFn(GeoOutcomes) /\ [][CallGetIpLocation]_vars

-----------------------------------------------------------------------------
(* The file system, as os.path.isfile sees it.                             *)
(* A file is named by its canonical path: relative to the working          *)
(* directory ("dist/app.js", "main.py") or absolute ("/etc/passwd").       *)

\* os.path.join(a, b): an absolute b discards a
os_path_join(a, b) ==
    IF startswith(b, "/") THEN b
    ELSE IF a = "" \/ SubSeq(a, Len(a), Len(a)) = "/" THEN a \o b
    ELSE a \o "/" \o b

RECURSIVE JoinWith(_, _)
JoinWith(comps, sep) ==
    IF comps = <<>> THEN ""
    ELSE IF Len(comps) = 1 THEN comps[1]
    ELSE comps[1] \o sep \o JoinWith(Tail(comps), sep)

Canonical(abs, comps) == IF abs THEN "/" \o JoinWith(comps, "/") ELSE JoinWith(comps, "/")

\* directories that exist: the build's dist and dist/assets (the mount of
\* /assets requires the latter at start-up), and every ancestor of a file
IsDir(fsys, p) ==
    \/ p \in {"", "/", "dist", "dist/assets"}
    \/ \E f \in fsys : startswith(f, IF p = "/" THEN p ELSE p \o "/")

\* Kernel path resolution, component by component: "" and "." stay, ".."
\* goes to the parent, a name descends and must be a directory unless it is
\* the last component.  None when the walk fails or leaves the working
\* directory upwards (no file is modelled above it).
RECURSIVE Walk(_, _, _, _)
Walk(fsys, abs, cur, comps) ==
    IF comps = <<>> THEN Some(Canonical(abs, cur))
    ELSE LET c == Head(comps)
             rest == Tail(comps)
         IN  IF c \in {"", "."} THEN
                 IF IsDir(fsys, Canonical(abs, cur)) THEN Walk(fsys, abs, cur, rest) ELSE None
             ELSE IF c = ".." THEN
                 IF cur = <<>> THEN (IF abs THEN Walk(fsys, abs, cur, rest) ELSE None)
                 ELSE Walk(fsys, abs, SubSeq(cur, 1, Len(cur) - 1), rest)
             ELSE IF rest = <<>> \/ IsDir(fsys, Canonical(abs, Append(cur, c)))
                  THEN Walk(fsys, abs, Append(cur, c), rest)
                  ELSE None

Resolve(fsys, path) == Walk(fsys, startswith(path, "/"), <<>>, split(path, "/"))

\* os.path.isfile(path)
isfile(fsys, path) == Resolve(fsys, path) # None /\ Resolve(fsys, path)[1] \in fsys

-----------------------------------------------------------------------------
(* Responses.  body is the JSON body (a dict) of a JSON response, file the *)
(* canonical path of the file a file response sends.                       *)

JSONResponse(body) == [status |-> HTTP_OK, body |-> body, file |-> ""]
ErrorResponse(code) == [status |-> code, body |-> EmptyDict, file |-> ""]

HTTP_NOT_FOUND == 404
HTTP_SERVER_ERROR == 500

\* FileResponse(path): the file is opened when the response is sent, and a
\* missing file raises there, which the server answers with 500
FileResponse(fsys, path) ==
    IF isfile(fsys, path)
    THEN [status |-> HTTP_OK, body |-> EmptyDict, file |-> Resolve(fsys, path)[1]]
    ELSE ErrorResponse(HTTP_SERVER_ERROR)

-----------------------------------------------------------------------------
(* Routing: the routes in the order the module registers them; the first   *)
(* route that matches the path of a GET request handles it.                *)

Routes_CatchAllFirst ==
    << [kind |-> "param", path |-> "/", endpoint |-> "catch_all"],
       [kind |-> "exact", path |-> "/api/system-info", endpoint |-> "get_system_info"],
       [kind |-> "exact", path |-> "/api/health", endpoint |-> "health_check"],
       [kind |-> "mount", path |-> "/assets", endpoint |-> "assets"] >>

Routes ==
    << [kind |-> "exact", path |-> "/api/system-info", endpoint |-> "get_system_info"],
       [kind |-> "exact", path |-> "/api/health", endpoint |-> "health_check"],
       [kind |-> "mount", path |-> "/assets", endpoint |-> "assets"],
       [kind |-> "param", path |-> "/", endpoint |-> "catch_all"] >>

\* "exact": the path itself; "mount": anything below path + "/";
\* "param": path followed by {full_path:path}, which matches any rest
Matches(route, path) ==
    CASE route.kind = "exact" -> path = route.path
      [] route.kind = "mount" -> startswith(path, route.path \o "/")
      [] route.kind = "param" -> startswith(path, route.path)

RouteFor(path) ==
    LET hits == {i \in 1..Len(Routes) : Matches(Routes[i], path)}
    IN  IF hits = {} THEN "not_found" ELSE Routes[Min(hits)].endpoint

-----------------------------------------------------------------------------
(* The endpoints.                                                          *)

\* get_system_info after the await: the response from the request, the
\* client_ip derived before the await and the location_info awaited
SystemInfoResponse_Unfiltered(request, ip, location_info) ==
    IF location_info.raised # None THEN ErrorResponse(HTTP_SERVER_ERROR)
    ELSE JSONResponse([ip |-> ip,
                       location |-> location_info.value.location,
                       isp |-> location_info.value.isp,
                       headers |-> request.headers])

SystemInfoResponse(request, ip, location_info) ==
    IF location_info.raised # None THEN ErrorResponse(HTTP_SERVER_ERROR)
    ELSE JSONResponse([ip |-> ip,
                       location |-> location_info.value.location,
                       isp |-> location_info.value.isp,
                       headers |-> filter_headers(request.headers)])

\* location_info of the request in slot r, whose own outbound call ended
\* with outcome.  The variant keeps one result per IP for all requests.
LocationInfo_SharedPerIp(r, outcome) ==
    LET earlier == {q \in 1..MaxReq : /\ q # r
                                      /\ pc[q] = "done"
                                      /\ handler[q] = "get_system_info"
                                      /\ client_ip[q] = client_ip[r]}
    IN  IF earlier = {} THEN get_ip_location(outcome)
        ELSE get_ip_location(reply[Min(earlier)])

LocationInfo(r, outcome) == get_ip_location(outcome)

\* catch_all(full_path)
catch_all(fsys, full_path) ==
    LET file_path == os_path_join("dist", full_path)
    IN  IF isfile(fsys, file_path) THEN FileResponse(fsys, file_path)
        ELSE FileResponse(fsys, "dist/index.html")

\* the StaticFiles application mounted at /assets, for the path below the
\* mount: a file inside dist/assets, or 404
static_assets(fsys, sub_path) ==
    LET target == Resolve(fsys, "dist/assets/" \o sub_path)
    IN  IF target # None /\ target[1] \in fsys /\ startswith(target[1], "dist/assets/")
        THEN [status |-> HTTP_OK, body |-> EmptyDict, file |-> target[1]]
        ELSE ErrorResponse(HTTP_NOT_FOUND)

-----------------------------------------------------------------------------
(* The server.                                                             *)

BuildFiles == {"dist/index.html", "dist/assets/a.js", "dist/api/health"}
OptionalBuildFiles == {"dist/app.js"}
OutsideFiles == {"main.py", "/etc/passwd"}

Dict3(k1, v1, k2, v2, k3, v3) == Merge(Dict1(k1, v1), Merge(Dict1(k2, v2), Dict1(k3, v3)))

Peer == Some("7.7.7.7")

SystemInfoRequests ==
    { [path |-> "/api/system-info", client |-> Peer,
       headers |-> Merge(Dict3("host", "example.org", "cookie", "sid=1",
                               "x-forwarded-for", XffSample),
                         Dict1("x-auth-token", "t"))],
      [path |-> "/api/system-info", client |-> None,
       headers |-> Merge(Dict3("user-agent", "curl/8", "authorization", "Bearer t",
                               "x-real-ip", "1.2.3.4"),
                         Dict1("x-api-key", "k"))] }

StaticPaths ==
    {"/app.js", "/assets/a.js", "/assets/missing.js", "/../main.py", "//etc/passwd"}

OtherRequests ==
    {[path |-> p, client |-> Peer, headers |-> Dict1("host", "example.org")] :
        p \in {"/api/health"} \cup StaticPaths}

Requests == SystemInfoRequests \cup OtherRequests

\* outcomes of the outbound call, one of each kind
FullBody ==
    Merge(Dict3("status", "success", "country", "Japan", "regionName", "Tokyo"),
          Merge(Dict1("city", "Shibuya"), Dict1("isp", "ExampleISP")))
ServerGeoOutcomes ==
    { Response(HTTP_OK, "object", FullBody),
      Response(HTTP_OK, "object", Dict3("status", "fail", "country", "Japan", "isp", "X")),
      Response(HTTP_OK, "invalid", EmptyDict),
      Response(429, "object", FullBody),
      NetworkFailure("ConnectError"),
      NetworkFailure("TimeoutException") }

Slots == 1..MaxReq

Init ==
    /\ fs \in {BuildFiles \cup OutsideFiles \cup X : X \in SUBSET OptionalBuildFiles}
    /\ pc = [r \in Slots |-> "idle"]
    /\ req = [r \in Slots |-> <<>>]
    /\ client_ip = [r \in Slots |-> ""]
    /\ reply = [r \in Slots |-> <<>>]
    /\ resp = [r \in Slots |-> <<>>]
    /\ handler = [r \in Slots |-> ""]
    /\ geo_calls = [r \in Slots |-> 0]
    /\ fn_in = <<>>
    /\ fn_out = <<>>
    /\ fn_done = FALSE

\* a GET request arrives on an idle connection and the router picks its endpoint
Arrive(r, request) ==
    /\ pc[r] = "idle"
    /\ pc' = [pc EXCEPT ![r] = "dispatched"]
    /\ req' = [req EXCEPT ![r] = request]
    /\ handler' = [handler EXCEPT ![r] = RouteFor(request.path)]
    /\ UNCHANGED <<fs, client_ip, reply, resp, geo_calls, fnVars>>

\* get_system_info up to its await: derives the IP and issues the outbound call
StartSystemInfo(r) ==
    /\ pc[r] = "dispatched"
    /\ handler[r] = "get_system_info"
    /\ client_ip' = [client_ip EXCEPT ![r] = get_client_ip(req[r])]
    /\ geo_calls' = [geo_calls EXCEPT ![r] = geo_calls[r] + 1]
    /\ pc' = [pc EXCEPT ![r] = "awaiting_geo"]
    /\ UNCHANGED <<fs, req, reply, resp, handler, fnVars>>

\* the outbound call ends (a reply, an error, or the 5 s timeout) and
\* get_system_info runs to its return
GeoCallCompletes(r, outcome) ==
    /\ pc[r] = "awaiting_geo"
    /\ reply' = [reply EXCEPT ![r] = outcome]
    /\ resp' = [resp EXCEPT ![r] =
                   SystemInfoResponse(req[r], client_ip[r], LocationInfo(r, outcome))]
    /\ pc' = [pc EXCEPT ![r] = "done"]
    /\ UNCHANGED <<fs, req, client_ip, handler, geo_calls, fnVars>>

health_check(r) ==
    /\ pc[r] = "dispatched"
    /\ handler[r] = "health_check"
    /\ resp' = [resp EXCEPT ![r] = JSONResponse(Dict1("status", "ok"))]
    /\ pc' = [pc EXCEPT ![r] = "done"]
    /\ UNCHANGED <<fs, req, client_ip, reply, handler, geo_calls, fnVars>>

ServeAssets(r) ==
    /\ pc[r] = "dispatched"
    /\ handler[r] = "assets"
    /\ resp' = [resp EXCEPT ![r] =
                   static_assets(fs, SubSeq(req[r].path, Len("/assets/") + 1, Len(req[r].path)))]
    /\ pc' = [pc EXCEPT ![r] = "done"]
    /\ UNCHANGED <<fs, req, client_ip, reply, handler, geo_calls, fnVars>>

CatchAll(r) ==
    /\ pc[r] = "dispatched"
    /\ handler[r] = "catch_all"
    /\ resp' = [resp EXCEPT ![r] = catch_all(fs, SubSeq(req[r].path, 2, Len(req[r].path)))]
    /\ pc' = [pc EXCEPT ![r] = "done"]
    /\ UNCHANGED <<fs, req, client_ip, reply, handler, geo_calls, fnVars>>

\* the response has been sent; the request and all its locals are discarded
Close(r) ==
    /\ pc[r] = "done"
    /\ pc' = [pc EXCEPT ![r] = "idle"]
    /\ req' = [req EXCEPT ![r] = <<>>]
    /\ client_ip' = [client_ip EXCEPT ![r] = ""]
    /\ reply' = [reply EXCEPT ![r] = <<>>]
    /\ resp' = [resp EXCEPT ![r] = <<>>]
    /\ handler' = [handler EXCEPT ![r] = ""]
    /\ geo_calls' = [geo_calls EXCEPT ![r] = 0]
    /\ UNCHANGED <<fs, fnVars>>

Next ==
    \E r \in Slots :
        \/ \E request \in Requests : Arrive(r, request)
        \/ StartSystemInfo(r)
        \/ \E outcome \in ServerGeoOutcomes : GeoCallCompletes(r, outcome)
        \/ health_check(r)
        \/ ServeAssets(r)
        \/ CatchAll(r)
        \/ Close(r)

Spec == Init /\ [][Next]_vars

\* The outbound call of every suspended request ends (with a reply, an
\* error, or the timeout httpx raises after 5 s without progress), and the
\* event loop then resumes the handler that awaited it.
Fairness ==
    \A r \in Slots :
        WF_vars(\E outcome \in ServerGeoOutcomes : GeoCallCompletes(r, outcome))

\* the server started on a complete build
InitBuilt == Init /\ fs = BuildFiles \cup OutsideFiles \cup OptionalBuildFiles

FairSpec == InitBuilt /\ [][Next]_vars /\ Fairness

-----------------------------------------------------------------------------
(* Vocabulary of the properties, stated without the operators above.       *)

CharAt(s, i) == SubSeq(s, i, i)

\* t is s without its leading and trailing whitespace
IsTrimOf(t, s) ==
    \E i \in 1..(Len(s) + 1) : \E j \in 0..Len(s) :
        /\ t = SubSeq(s, i, j)
        /\ \A k \in 1..(i - 1) : CharAt(s, k) \in {" ", "\t"}
        /\ \A k \in (j + 1)..Len(s) : CharAt(s, k) \in {" ", "\t"}
        /\ t # "" => CharAt(t, 1) \notin {" ", "\t"} /\ CharAt(t, Len(t)) \notin {" ", "\t"}

Prefixes(s) == {SubSeq(s, 1, n) : n \in 0..Len(s)}

\* p is the part of s before its first comma (all of s when it has none)
IsBeforeFirstComma(p, s) ==
    \E n \in 0..Len(s) :
        /\ p = SubSeq(s, 1, n)
        /\ \A k \in 1..n : CharAt(s, k) # ","
        /\ n = Len(s) \/ CharAt(s, n + 1) = ","

SensitiveNames == {"cookie", "authorization", "x-api-key", "x-auth-token"}

HasHeader(request, name) == name \in DOMAIN request.headers

\* what the transport level gives: the peer address, or "unknown" without one
TransportIp(request) == IF request.client = None THEN "unknown" ELSE request.client[1]

-----------------------------------------------------------------------------
(* C1 *)

\* C1: filter_headers(H) has no key whose lower-case form is cookie,
\* authorization, x-api-key or x-auth-token, whatever the key's letter case
\* in H; it has exactly the other keys of H, each with H's value; and an
\* empty H gives an empty result.
C1_FilterHeaders ==
    fn_done =>
        /\ \A k \in DOMAIN fn_out : lower(k) \notin SensitiveNames
        /\ DOMAIN fn_out \cap {"Cookie", "COOKIE", "cookie", "Authorization",
                               "X-Api-Key", "X-AUTH-TOKEN"} = {}
        /\ \A k \in DOMAIN fn_in : lower(k) \notin SensitiveNames => k \in DOMAIN fn_out
        /\ DOMAIN fn_out \subseteq DOMAIN fn_in
        /\ \A k \in DOMAIN fn_out : fn_out[k] = fn_in[k]
        /\ fn_in = EmptyDict => fn_out = EmptyDict

C1_Witness ==
    /\ fn_done
    /\ DOMAIN fn_in = {"Cookie", "Accept"}
    /\ DOMAIN fn_out = {"Accept"}
    /\ fn_out["Accept"] = "Bearer  T "

-----------------------------------------------------------------------------
(* C2 *)

\* C2 as stated: whenever the request carries an X-Forwarded-For header,
\* whatever its value (the empty value included), get_client_ip returns the
\* part of the value before its first comma, trimmed.
C2_Original ==
    fn_done /\ HasHeader(fn_in, "x-forwarded-for") =>
        LET v == fn_in.headers["x-forwarded-for"]
        IN  \E p \in Prefixes(v) : IsBeforeFirstComma(p, v) /\ IsTrimOf(fn_out, p)

\* C2, amended: whenever the request carries an X-Forwarded-For header with
\* a non-empty value (one whose first comma-separated segment is empty or
\* blank included, and whatever X-Real-IP and the transport address are),
\* get_client_ip returns the part of the value before its first comma,
\* trimmed; "1.2.3.4, 5.6.7.8" gives exactly "1.2.3.4".  An empty value is
\* passed over as if the header were absent.
C2_ForwardedFor ==
    fn_done /\ HasHeader(fn_in, "x-forwarded-for") =>
        LET v == fn_in.headers["x-forwarded-for"]
        IN  /\ v # "" =>
                \E p \in Prefixes(v) : IsBeforeFirstComma(p, v) /\ IsTrimOf(fn_out, p)
            /\ v = XffSample => fn_out = "1.2.3.4"
            /\ v = "" =>
                fn_out = IF HasHeader(fn_in, "x-real-ip") /\ fn_in.headers["x-real-ip"] # ""
                         THEN fn_in.headers["x-real-ip"]
                         ELSE TransportIp(fn_in)

C2_Witness ==
    /\ fn_done
    /\ HasHeader(fn_in, "x-forwarded-for")
    /\ fn_in.headers["x-forwarded-for"] = XffSample
    /\ HasHeader(fn_in, "x-real-ip")
    /\ fn_in.client # None
    /\ fn_out = "1.2.3.4"

-----------------------------------------------------------------------------
(* C3 *)

\* C3 as stated: without an X-Forwarded-For header, get_client_ip returns
\* the X-Real-IP value verbatim if that header is present, whatever its
\* value (the empty value included); otherwise the transport address; and
\* "unknown" when there is none.
C3_Original ==
    fn_done /\ ~HasHeader(fn_in, "x-forwarded-for") =>
        fn_out = IF HasHeader(fn_in, "x-real-ip")
                 THEN fn_in.headers["x-real-ip"]
                 ELSE TransportIp(fn_in)

\* C3, amended: without an X-Forwarded-For header, get_client_ip returns the
\* X-Real-IP value verbatim if that header is present with a non-empty
\* value; otherwise (no X-Real-IP, or an empty one) the transport address of
\* the connection; and exactly "unknown" when no transport address is
\* available.
C3_RealIpThenTransport ==
    fn_done /\ ~HasHeader(fn_in, "x-forwarded-for") =>
        /\ HasHeader(fn_in, "x-real-ip") /\ fn_in.headers["x-real-ip"] # ""
               => fn_out = fn_in.headers["x-real-ip"]
        /\ ~HasHeader(fn_in, "x-real-ip") \/ fn_in.headers["x-real-ip"] = ""
               => /\ fn_in.client # None => fn_out = fn_in.client[1]
                  /\ fn_in.client = None => fn_out = "unknown"

C3_Witness ==
    /\ fn_done
    /\ ~HasHeader(fn_in, "x-forwarded-for")
    /\ ~HasHeader(fn_in, "x-real-ip")
    /\ fn_in.client = None
    /\ fn_out = "unknown"

-----------------------------------------------------------------------------
(* C5 *)

FieldOrEmpty(data, k) == IF k \in DOMAIN data THEN data[k] ELSE ""

IsSuccessReply(outcome) ==
    /\ outcome.exc = None
    /\ outcome.status_code = 200
    /\ outcome.parse = "object"
    /\ "status" \in DOMAIN outcome.data
    /\ outcome.data["status"] = "success"

\* C5: for a reply with HTTP 200 and body status "success", get_ip_location
\* returns location = country, regionName and city joined with single spaces
\* and trimmed (an absent field counts as empty), and isp = the body's isp
\* field, or the unknown string when the field is absent; Japan / Tokyo /
\* Shibuya / ExampleISP gives "Japan Tokyo Shibuya" and "ExampleISP".
C5_SuccessReply ==
    fn_done /\ IsSuccessReply(fn_in) =>
        LET d == fn_in.data
            joined == FieldOrEmpty(d, "country") \o " " \o FieldOrEmpty(d, "regionName")
                          \o " " \o FieldOrEmpty(d, "city")
        IN  /\ fn_out.raised = None
            /\ IsTrimOf(fn_out.value.location, joined)
            /\ fn_out.value.isp = IF "isp" \in DOMAIN d THEN d["isp"] ELSE UNKNOWN
            /\ d = FullBody =>
                   fn_out.value = [location |-> "Japan Tokyo Shibuya", isp |-> "ExampleISP"]

C5_Witness ==
    /\ fn_done
    /\ IsSuccessReply(fn_in)
    /\ fn_in.data = FullBody
    /\ fn_out.value.location = "Japan Tokyo Shibuya"
    /\ fn_out.value.isp = "ExampleISP"

-----------------------------------------------------------------------------
(* Properties of the server.                                               *)

Answered(r) == pc[r] = "done"
IsSystemInfo(r) == pc[r] # "idle" /\ req[r].path = "/api/system-info"
IsHealth(r) == pc[r] # "idle" /\ req[r].path = "/api/health"

FallbackBody(body) == body["location"] = UNKNOWN /\ body["isp"] = UNKNOWN

-----------------------------------------------------------------------------
(* C4 *)

\* the single geolocation attempt failed: a network error or timeout, a
\* status other than 200, a body that does not parse to an object, or a
\* body whose status field is not "success"
IsGeoFailure(outcome) == ~IsSuccessReply(outcome)

C4_FallbackOnFailure ==
    \A r \in Slots :
        Answered(r) /\ IsSystemInfo(r) /\ IsGeoFailure(reply[r]) =>
            /\ resp[r].status = 200
            /\ DOMAIN resp[r].body = {"ip", "location", "isp", "headers"}
            /\ FallbackBody(resp[r].body)
            /\ geo_calls[r] = 1

\* C4: for every way the single geolocation attempt can fail, the result is
\* exactly the fallback pair, there is no second attempt, no exception
\* leaves get_ip_location, and the GET /api/system-info request that made
\* the call is eventually answered with a normal response.
C4_FailureIsAbsorbed ==
    /\ []C4_FallbackOnFailure
    /\ \A r \in Slots :
          (pc[r] = "awaiting_geo") ~> (Answered(r) /\ resp[r].status = 200)

C4_Witness ==
    \E r \in Slots :
        /\ Answered(r)
        /\ IsSystemInfo(r)
        /\ reply[r] = NetworkFailure("TimeoutException")
        /\ resp[r].status = 200
        /\ FallbackBody(resp[r].body)

-----------------------------------------------------------------------------
(* C6 *)

\* C6: whatever else the server is doing (system-info requests in flight or
\* suspended on the geolocation call, any geolocation outcome, any files in
\* the build directory), a GET /api/health request is dispatched to
\* health_check, not to the catch-all route, can be answered at once without
\* any geolocation call, and is answered with exactly {"status": "ok"}.
C6_HealthAlwaysOk ==
    \A r \in Slots :
        IsHealth(r) =>
            /\ handler[r] = "health_check"
            /\ pc[r] # "awaiting_geo"
            /\ geo_calls[r] = 0
            /\ pc[r] = "dispatched" => ENABLED health_check(r)
            /\ Answered(r) =>
                   resp[r] = [status |-> 200, body |-> Dict1("status", "ok"), file |-> ""]

C6_Witness ==
    \E r \in Slots : \E q \in Slots \ {r} :
        /\ IsHealth(r)
        /\ Answered(r)
        /\ resp[r].body = Dict1("status", "ok")
        /\ pc[q] = "awaiting_geo"
        /\ "dist/api/health" \in fs

-----------------------------------------------------------------------------
(* C7 and C10 *)

FullPathOf(r) == SubSeq(req[r].path, 2, Len(req[r].path))

\* the file the build directory holds at full_path, if any: the path is
\* taken below dist and must name a file that lies inside dist
BuildFileAt(fsys, full_path) ==
    LET target == Resolve(fsys, "dist/" \o full_path)
    IN  IF target # None /\ target[1] \in fsys /\ startswith(target[1], "dist/")
        THEN target
        ELSE None

\* C7: for every path that reaches catch_all, the response is a success and
\* carries the file at that path under the build directory when there is
\* one, and the root index document otherwise.
C7_BuildFileOrIndex ==
    \A r \in Slots :
        Answered(r) /\ handler[r] = "catch_all" =>
            /\ resp[r].status = 200
            /\ resp[r].file = IF BuildFileAt(fs, FullPathOf(r)) # None
                              THEN BuildFileAt(fs, FullPathOf(r))[1]
                              ELSE "dist/index.html"

\* C10: every file catch_all serves lies inside the build directory dist,
\* also for paths with ".." segments and for a full_path that begins with "/".
C10_ServedFileInsideDist ==
    \A r \in Slots :
        Answered(r) /\ handler[r] = "catch_all" /\ resp[r].file # "" =>
            startswith(resp[r].file, "dist/")

-----------------------------------------------------------------------------
(* C8 *)

\* C8: every response of GET /api/system-info, whatever the geolocation
\* outcome, has exactly the fields ip, location, isp and headers; ip is what
\* get_client_ip derives from the request; headers has no key whose
\* lower-case form is sensitive and has every other header of the request
\* with its value.
C8_SystemInfoShape ==
    \A r \in Slots :
        Answered(r) /\ IsSystemInfo(r) =>
            /\ resp[r].status = 200
            /\ DOMAIN resp[r].body = {"ip", "location", "isp", "headers"}
            /\ resp[r].body["ip"] = get_client_ip(req[r])
            /\ LET out == resp[r].body["headers"]
               IN  /\ \A k \in DOMAIN out : lower(k) \notin SensitiveNames
                   /\ \A k \in DOMAIN req[r].headers :
                          lower(k) \notin SensitiveNames =>
                              k \in DOMAIN out /\ out[k] = req[r].headers[k]
                   /\ DOMAIN out \subseteq DOMAIN req[r].headers

C8_Witness ==
    \E r \in Slots :
        /\ Answered(r)
        /\ IsSystemInfo(r)
        /\ IsGeoFailure(reply[r])
        /\ "cookie" \in DOMAIN req[r].headers
        /\ resp[r].body["ip"] = "1.2.3.4"
        /\ DOMAIN resp[r].body["headers"] = {"host", "x-forwarded-for"}

-----------------------------------------------------------------------------
(* C9 *)

\* C9: under every interleaving, the response to a system-info request is a
\* function of that request's own headers and transport address and of the
\* reply to its own outbound call, of which it makes exactly one; a result
\* obtained for another request, even for the same IP, is never used.
C9_RequestsIndependent ==
    \A r \in Slots :
        Answered(r) /\ IsSystemInfo(r) =>
            /\ geo_calls[r] = 1
            /\ get_ip_location(reply[r]).raised = None
            /\ resp[r] = [status |-> 200, file |-> "",
                          body |-> [ip |-> get_client_ip(req[r]),
                                    location |-> get_ip_location(reply[r]).value.location,
                                    isp |-> get_ip_location(reply[r]).value.isp,
                                    headers |-> filter_headers(req[r].headers)]]

\* two answered requests with the same IP whose own replies differed
C9_Witness ==
    \E r \in Slots : \E q \in Slots \ {r} :
        /\ Answered(r) /\ IsSystemInfo(r)
        /\ Answered(q) /\ IsSystemInfo(q)
        /\ client_ip[r] = client_ip[q]
        /\ req[r] # req[q]
        /\ IsSuccessReply(reply[r])
        /\ IsGeoFailure(reply[q])
        /\ resp[r].body["location"] = "Japan Tokyo Shibuya"
        /\ resp[q].body["location"] = UNKNOWN

====
